---- MODULE Spec2Model ----
(***************************************************************************)
(* State-machine model of qiskit_metal.analyses.quantization.sim_eigenmode *)
(* (class EigenmodeSim).  The renderer (HFSS through pyEPR) and the        *)
(* QAnalysisRenderer base class are collaborators: the renderer's return   *)
(* values and failures are nondeterministic choices over small sets.       *)
(* The tree view of qiskit_metal._gui.tree_view_base (class QTreeView_Base)*)
(* is a second, independent machine with its own specification, SpecTree.  *)
(***************************************************************************)
EXTENDS Integers, Sequences, FiniteSets, TLC

\* ------------------------------------------------------------------ bounds
\* Number of distinct convergence tables of each kind the renderer can return.
MaxTables == 2
\* Number of distinct setup names the renderer can return.
MaxSetupNames == 2

\* Largest number of columns of the tree view's model.
MaxColumns == 2

\* ------------------------------------------------------------------ values
\* Python's None.
None == "None"

\* The DataFrames the renderer can hand back as convergence_t / convergence_f.
TablesT == {"t" \o ToString(i) : i \in 1..MaxTables}
TablesF == {"f" \o ToString(i) : i \in 1..MaxTables}

\* Setup names the renderer can answer initialize_eigenmode with.
SetupNames == {"Setup" \o ToString(i) : i \in 1..MaxSetupNames}

\* Names the renderer can answer execute_design with, besides the requested one.
RenamedDesign == "Design_renamed"

\* design.name of the QDesign handed to the constructor.
DesignNames == {"DesignPlanar"}

\* renderer_name arguments: the default and the one the unit test uses.
RendererNames == {"hfss", "eigenName"}

\* name arguments of run_sim (None is the default).
RunNames == {None, "", "sel"}

\* variation arguments of recompute_convergences (None is the default).
Variations == {None, "scale_factor='1.2001'"}

\* Exceptions a renderer call can raise.
Exceptions == {"RuntimeError", "COMError"}

\* DataFrame.iloc[:, i]: column i of table df.
iloc(df, i) == <<df, i>>

\* ------------------------------------------------------------------ state
VARIABLES
    pc,                  \* position of the (single-threaded) caller
    design,              \* self.design
    renderer_name,       \* self.renderer_name
    renderer_initialized,\* self.renderer_initialized
    default_setup,       \* the class attribute EigenmodeSim.default_setup
    setup,               \* self.setup (the instance's setup)
    setup_name,          \* self.setup_name
    _convergence_t,      \* self._convergence_t
    _convergence_f,      \* self._convergence_f
    frame,               \* locals of the operation in progress
    calls,               \* renderer calls issued by the current/last operation
    plots,               \* pyEPR plot calls issued by the last plot_convergences
    result,              \* outcome of the last operation
    tree_pc,             \* position of the GUI thread in QTreeView_Base
    content_width,       \* per column, the width its contents ask for
    column_width,        \* per column, the view's columnWidth
    tree_frame           \* locals of the tree-view operation in progress/last

sim_vars == <<pc, design, renderer_name, renderer_initialized, default_setup, setup,
              setup_name, _convergence_t, _convergence_f, frame, calls, plots,
              result>>

tree_vars == <<tree_pc, content_width, column_width, tree_frame>>

vars == <<sim_vars, tree_vars>>

\* Faulty variant: the pass limit of the neighbouring simulation classes.
EigenmodeSim_default_setup_max_passes_15 ==
    [sim |-> [name           |-> "Setup",
              min_freq_ghz   |-> 1,
              n_modes        |-> 1,
              max_delta_f    |-> <<1, 2>>,
              max_passes     |-> 15,
              min_passes     |-> 1,
              min_converged  |-> 1,
              pct_refinement |-> 30,
              basis_order    |-> 1,
              vars           |-> [Lj |-> "10 nH", Cj |-> "0 fF"]]]

\* The literal of the class attribute default_setup. 0.5 is the rational <<1, 2>>.
EigenmodeSim_default_setup ==
    [sim |-> [name           |-> "Setup",
              min_freq_ghz   |-> 1,
              n_modes        |-> 1,
              max_delta_f    |-> <<1, 2>>,
              max_passes     |-> 10,
              min_passes     |-> 1,
              min_converged  |-> 1,
              pct_refinement |-> 30,
              basis_order    |-> 1,
              vars           |-> [Lj |-> "10 nH", Cj |-> "0 fF"]]]

NoFrame == [op |-> "none"]
NoResult == [op |-> "none", kind |-> "none"]

Returned(op, v) == [op |-> op, kind |-> "returned", value |-> v]
Raised(op, exc, by) == [op |-> op, kind |-> "raised", exc |-> exc, by |-> by]

\* A renderer call in flight, and how it ends.
Call(op, args) == [op |-> op, args |-> args, status |-> "pending"]
Pending == calls # <<>> /\ calls[Len(calls)].status = "pending"
Complete(status, ret) ==
    [calls EXCEPT ![Len(calls)] =
        [op |-> @.op, args |-> @.args, status |-> status, ret |-> ret]]
LastArgs == calls[Len(calls)].args

Init ==
    /\ pc = "new"
    /\ design = [name |-> None]
    /\ renderer_name = None
    /\ renderer_initialized \in BOOLEAN
    /\ default_setup = EigenmodeSim_default_setup
    /\ setup = None
    /\ setup_name = None
    /\ _convergence_t = None
    /\ _convergence_f = None
    /\ frame = NoFrame
    /\ calls = <<>>
    /\ plots = <<>>
    /\ result = NoResult
    /\ tree_pc = "idle"
    /\ content_width = <<>>
    /\ column_width = <<>>
    /\ tree_frame = NoFrame

\* ------------------------------------------------- construction (lines 55-70)
\* QAnalysisRenderer.__init__(design, renderer_name): keeps the design and the
\* renderer name and gives the instance its own setup, built from the class
\* defaults; an unknown renderer name is accepted.
QAnalysisRenderer__init__(d, rn) ==
    /\ design' = [name |-> d]
    /\ renderer_name' = rn
    /\ setup' = default_setup
    /\ UNCHANGED renderer_initialized

\* Faulty variant: the constructor presets setup_name to the default name.
__init___presets_setup_name(d, rn) ==
    /\ pc \in {"new", "idle"}
    /\ QAnalysisRenderer__init__(d, rn)
    /\ setup_name' = default_setup.sim.name
    /\ _convergence_t' = None
    /\ _convergence_f' = None
    /\ pc' = "idle"
    /\ frame' = [op |-> "__init__"]
    /\ calls' = <<>>
    /\ plots' = <<>>
    /\ result' = Returned("__init__", None)
    /\ UNCHANGED default_setup
    /\ UNCHANGED tree_vars

\* EigenmodeSim.__init__
__init__(d, rn) ==
    /\ pc \in {"new", "idle"}
    /\ QAnalysisRenderer__init__(d, rn)
    /\ setup_name' = None
    /\ _convergence_t' = None
    /\ _convergence_f' = None
    /\ pc' = "idle"
    /\ frame' = [op |-> "__init__"]
    /\ calls' = <<>>
    /\ plots' = <<>>
    /\ result' = Returned("__init__", None)
    /\ UNCHANGED default_setup
    /\ UNCHANGED tree_vars

\* QAnalysis.setup_update: overrides an entry of the instance's setup before a run.
setup_update(n) ==
    /\ pc = "idle"
    /\ setup.sim.name # n
    /\ setup' = [setup EXCEPT !.sim.name = n]
    /\ frame' = [op |-> "setup_update"]
    /\ calls' = <<>>
    /\ plots' = <<>>
    /\ result' = Returned("setup_update", None)
    /\ UNCHANGED <<pc, design, renderer_name, renderer_initialized, default_setup,
                   setup_name, _convergence_t, _convergence_f>>
    /\ UNCHANGED tree_vars

\* The renderer is stopped from outside the analysis (QAnalysisRenderer.close).
close ==
    /\ pc = "idle"
    /\ renderer_initialized
    /\ renderer_initialized' = FALSE
    /\ frame' = [op |-> "close"]
    /\ calls' = <<>>
    /\ plots' = <<>>
    /\ result' = Returned("close", None)
    /\ UNCHANGED <<pc, design, renderer_name, default_setup, setup,
                   setup_name, _convergence_t, _convergence_f>>
    /\ UNCHANGED tree_vars

\* ------------------------------------------------- properties (lines 149-183)
convergence_f == _convergence_f
convergence_t == _convergence_t

\* The property setters, as the class itself uses them.
convergence_f_set(conv) == _convergence_f' = conv
convergence_t_set(conv) == _convergence_t' = conv

\* Faulty variant: the two targets of the unpacking are swapped.
unpack_convergences_swapped(pair) ==
    /\ convergence_t_set(pair[2])
    /\ convergence_f_set(pair[1])

\* `self.convergence_t, self.convergence_f = pair`
unpack_convergences(pair) ==
    /\ convergence_t_set(pair[1])
    /\ convergence_f_set(pair[2])

\* A caller assigns sim.convergence_f = conv.
convergence_f_setter(conv) ==
    /\ pc = "idle"
    /\ convergence_f_set(conv)
    /\ frame' = [op |-> "convergence_f.setter"]
    /\ calls' = <<>>
    /\ plots' = <<>>
    /\ result' = Returned("convergence_f.setter", None)
    /\ UNCHANGED <<pc, design, renderer_name, renderer_initialized, default_setup,
                   setup, setup_name, _convergence_t>>
    /\ UNCHANGED tree_vars

\* A caller assigns sim.convergence_t = conv.
convergence_t_setter(conv) ==
    /\ pc = "idle"
    /\ convergence_t_set(conv)
    /\ frame' = [op |-> "convergence_t.setter"]
    /\ calls' = <<>>
    /\ plots' = <<>>
    /\ result' = Returned("convergence_t.setter", None)
    /\ UNCHANGED <<pc, design, renderer_name, renderer_initialized, default_setup,
                   setup, setup_name, _convergence_f>>
    /\ UNCHANGED tree_vars

\* ------------------------------------------------- run_sim (lines 102-147)
\* The keyword arguments run_sim hands to _render (lines 138-144); the selection
\* arguments are passed through as given, here at their defaults.
run_sim_kwargs(name) ==
    [name            |-> name,
     selection       |-> None,
     open_pins       |-> None,
     port_list       |-> None,
     jj_to_port      |-> None,
     ignored_jjs     |-> None,
     box_plus_buffer |-> TRUE]

\* Faulty variant: the renderer is started whether or not it already runs.
run_sim_always_initializes(name) ==
    /\ pc = "idle"
    /\ frame' = [op |-> "run_sim",
                 design_selection |-> run_sim_kwargs(name),
                 entry_initialized |-> renderer_initialized,
                 before |-> [setup_name |-> setup_name,
                             convergence_t |-> convergence_t,
                             convergence_f |-> convergence_f],
                 renderer_design_name |-> None]
    /\ calls' = <<>>
    /\ plots' = <<>>
    /\ result' = NoResult
    /\ pc' = "_initialize_renderer"
    /\ UNCHANGED <<design, renderer_name, renderer_initialized, default_setup, setup,
                   setup_name, _convergence_t, _convergence_f>>
    /\ UNCHANGED tree_vars

\* run_sim is entered: lines 135-136 choose whether the renderer is started.
\* `before` remembers the attributes as they were on entry.
run_sim(name) ==
    /\ pc = "idle"
    /\ frame' = [op |-> "run_sim",
                 design_selection |-> run_sim_kwargs(name),
                 entry_initialized |-> renderer_initialized,
                 before |-> [setup_name |-> setup_name,
                             convergence_t |-> convergence_t,
                             convergence_f |-> convergence_f],
                 renderer_design_name |-> None]
    /\ calls' = <<>>
    /\ plots' = <<>>
    /\ result' = NoResult
    /\ pc' = IF ~renderer_initialized THEN "_initialize_renderer" ELSE "_render"
    /\ UNCHANGED <<design, renderer_name, renderer_initialized, default_setup, setup,
                   setup_name, _convergence_t, _convergence_f>>
    /\ UNCHANGED tree_vars

\* QAnalysisRenderer._initialize_renderer starts the renderer ...
_initialize_renderer ==
    /\ pc = "_initialize_renderer"
    /\ calls' = Append(calls, Call("initialize_renderer", <<>>))
    /\ pc' = "in_initialize_renderer"
    /\ UNCHANGED <<design, renderer_name, renderer_initialized, default_setup, setup,
                   setup_name, _convergence_t, _convergence_f, frame, plots, result>>
    /\ UNCHANGED tree_vars

\* ... and once it runs, renderer_initialized is true.
_initialize_renderer_return ==
    /\ pc = "in_initialize_renderer"
    /\ Pending
    /\ calls' = Complete("returned", None)
    /\ renderer_initialized' = TRUE
    /\ pc' = "_render"
    /\ UNCHANGED <<design, renderer_name, default_setup, setup,
                   setup_name, _convergence_t, _convergence_f, frame, plots, result>>
    /\ UNCHANGED tree_vars

\* Faulty variant: the name argument is ignored.
_render_base_name_ignores_name(design_selection) == design.name

\* _render, lines 80-84: the base name, and the keyword arguments left over.
_render_base_name(design_selection) ==
    IF "name" \in DOMAIN design_selection /\ design_selection["name"] # None
    THEN design_selection["name"]
    ELSE design.name

_render_selection(design_selection) ==
    IF "name" \in DOMAIN design_selection /\ design_selection["name"] # None
    THEN [k \in DOMAIN design_selection \ {"name"} |-> design_selection[k]]
    ELSE design_selection

\* _render, line 85.
_render_design_name(design_selection) ==
    _render_base_name(design_selection) \o "_" \o renderer_name

\* _render, lines 86-88: renderer.execute_design is called.
_render ==
    /\ pc = "_render"
    /\ calls' = Append(calls,
          Call("execute_design",
               [design_name |-> _render_design_name(frame.design_selection),
                solution_type |-> "eigenmode",
                design_selection |-> _render_selection(frame.design_selection)]))
    /\ pc' = "in_execute_design"
    /\ UNCHANGED <<design, renderer_name, renderer_initialized, default_setup, setup,
                   setup_name, _convergence_t, _convergence_f, frame, plots, result>>
    /\ UNCHANGED tree_vars

\* The names execute_design can answer with: the requested one or another.
execute_design_answers ==
    IF pc = "in_execute_design" THEN {LastArgs.design_name, RenamedDesign} ELSE {}

\* Faulty variant: the requested name is kept instead of the renderer's answer.
_render_return_keeps_requested(design_name) ==
    /\ pc = "in_execute_design"
    /\ Pending
    /\ calls' = Complete("returned", design_name)
    /\ frame' = [frame EXCEPT !.renderer_design_name = LastArgs.design_name]
    /\ pc' = "_analyze"
    /\ UNCHANGED <<design, renderer_name, renderer_initialized, default_setup, setup,
                   setup_name, _convergence_t, _convergence_f, plots, result>>
    /\ UNCHANGED tree_vars

\* line 86: the answer of execute_design becomes the design name.
_render_return(design_name) ==
    /\ pc = "in_execute_design"
    /\ Pending
    /\ calls' = Complete("returned", design_name)
    /\ frame' = [frame EXCEPT !.renderer_design_name = design_name]
    /\ pc' = "_analyze"
    /\ UNCHANGED <<design, renderer_name, renderer_initialized, default_setup, setup,
                   setup_name, _convergence_t, _convergence_f, plots, result>>
    /\ UNCHANGED tree_vars

\* ------------------------------------------------- _analyze (lines 91-100)
\* Faulty variant: the stored tables are cleared when the analysis starts.
_analyze_clears_tables ==
    /\ pc = "_analyze"
    /\ calls' = Append(calls, Call("initialize_eigenmode", setup.sim))
    /\ _convergence_t' = None
    /\ _convergence_f' = None
    /\ pc' = "in_initialize_eigenmode"
    /\ UNCHANGED <<design, renderer_name, renderer_initialized, default_setup, setup,
                   setup_name, frame, plots, result>>
    /\ UNCHANGED tree_vars

\* line 96: renderer.initialize_eigenmode(**self.setup.sim) is called.
_analyze ==
    /\ pc = "_analyze"
    /\ calls' = Append(calls, Call("initialize_eigenmode", setup.sim))
    /\ pc' = "in_initialize_eigenmode"
    /\ UNCHANGED <<design, renderer_name, renderer_initialized, default_setup, setup,
                   setup_name, _convergence_t, _convergence_f, frame, plots, result>>
    /\ UNCHANGED tree_vars

\* Faulty variant: the answer is also written into the class defaults.
_analyze_setup_name_writes_default(name) ==
    /\ pc = "in_initialize_eigenmode"
    /\ Pending
    /\ calls' = Complete("returned", name)
    /\ setup_name' = name
    /\ default_setup' = [default_setup EXCEPT !.sim.name = name]
    /\ pc' = "analyze_setup"
    /\ UNCHANGED <<design, renderer_name, renderer_initialized, setup,
                   _convergence_t, _convergence_f, frame, plots, result>>
    /\ UNCHANGED tree_vars

\* line 96: its answer is stored in self.setup_name.
_analyze_setup_name(name) ==
    /\ pc = "in_initialize_eigenmode"
    /\ Pending
    /\ calls' = Complete("returned", name)
    /\ setup_name' = name
    /\ pc' = "analyze_setup"
    /\ UNCHANGED <<design, renderer_name, renderer_initialized, default_setup, setup,
                   _convergence_t, _convergence_f, frame, plots, result>>
    /\ UNCHANGED tree_vars

\* line 98: renderer.analyze_setup(self.setup_name) is called.
_analyze_analyze_setup ==
    /\ pc = "analyze_setup"
    /\ calls' = Append(calls, Call("analyze_setup", <<setup_name>>))
    /\ pc' = "in_analyze_setup"
    /\ UNCHANGED <<design, renderer_name, renderer_initialized, default_setup, setup,
                   setup_name, _convergence_t, _convergence_f, frame, plots, result>>
    /\ UNCHANGED tree_vars

\* analyze_setup returns; its value is dropped.
_analyze_analyze_setup_return ==
    /\ pc = "in_analyze_setup"
    /\ Pending
    /\ calls' = Complete("returned", None)
    /\ pc' = "get_convergences"
    /\ UNCHANGED <<design, renderer_name, renderer_initialized, default_setup, setup,
                   setup_name, _convergence_t, _convergence_f, frame, plots, result>>
    /\ UNCHANGED tree_vars

\* lines 99-100: renderer.get_convergences() is called.
_analyze_get_convergences ==
    /\ pc = "get_convergences"
    /\ calls' = Append(calls, Call("get_convergences", <<>>))
    /\ pc' = "in_get_convergences"
    /\ UNCHANGED <<design, renderer_name, renderer_initialized, default_setup, setup,
                   setup_name, _convergence_t, _convergence_f, frame, plots, result>>
    /\ UNCHANGED tree_vars

\* lines 99-100: the pair it returns is unpacked into the two properties.
_analyze_convergences(t, f) ==
    /\ pc = "in_get_convergences"
    /\ Pending
    /\ calls' = Complete("returned", <<t, f>>)
    /\ unpack_convergences(<<t, f>>)
    /\ pc' = "run_sim_return"
    /\ UNCHANGED <<design, renderer_name, renderer_initialized, default_setup, setup,
                   setup_name, frame, plots, result>>
    /\ UNCHANGED tree_vars

\* line 147: run_sim returns the pair of names; what it remembered of the
\* attributes on entry is dropped.
run_sim_return ==
    /\ pc = "run_sim_return"
    /\ result' = Returned("run_sim", <<frame.renderer_design_name, setup_name>>)
    /\ frame' = [op |-> "run_sim",
                 design_selection |-> frame.design_selection,
                 entry_initialized |-> frame.entry_initialized,
                 renderer_design_name |-> frame.renderer_design_name]
    /\ pc' = "idle"
    /\ UNCHANGED <<design, renderer_name, renderer_initialized, default_setup, setup,
                   setup_name, _convergence_t, _convergence_f, calls, plots>>
    /\ UNCHANGED tree_vars

\* ------------------------------------------------- recompute_convergences (185-194)
\* Faulty variant: the tables are recomputed by running the analysis again.
recompute_convergences_reanalyzes(variation) ==
    /\ pc = "idle"
    /\ frame' = [op |-> "recompute_convergences", variation |-> variation]
    /\ calls' = <<Call("initialize_eigenmode", setup.sim)>>
    /\ plots' = <<>>
    /\ result' = NoResult
    /\ pc' = "in_initialize_eigenmode"
    /\ UNCHANGED <<design, renderer_name, renderer_initialized, default_setup, setup,
                   setup_name, _convergence_t, _convergence_f>>
    /\ UNCHANGED tree_vars

\* renderer.get_convergences(variation) is called.
recompute_convergences(variation) ==
    /\ pc = "idle"
    /\ frame' = [op |-> "recompute_convergences", variation |-> variation]
    /\ calls' = <<Call("get_convergences", <<variation>>)>>
    /\ plots' = <<>>
    /\ result' = NoResult
    /\ pc' = "in_recompute_convergences"
    /\ UNCHANGED <<design, renderer_name, renderer_initialized, default_setup, setup,
                   setup_name, _convergence_t, _convergence_f>>
    /\ UNCHANGED tree_vars

\* The pair it returns is unpacked into the two properties.
recompute_convergences_return(t, f) ==
    /\ pc = "in_recompute_convergences"
    /\ Pending
    /\ calls' = Complete("returned", <<t, f>>)
    /\ unpack_convergences(<<t, f>>)
    /\ result' = Returned("recompute_convergences", None)
    /\ pc' = "idle"
    /\ UNCHANGED <<design, renderer_name, renderer_initialized, default_setup, setup,
                   setup_name, frame, plots>>
    /\ UNCHANGED tree_vars

\* ------------------------------------------------- errors
\* Faulty variant: a failed renderer call is issued again.
renderer_raises_retried(exc) ==
    /\ Pending
    /\ calls' = Append(Complete("raised", exc),
                       Call(calls[Len(calls)].op, LastArgs))
    /\ UNCHANGED <<pc, design, renderer_name, renderer_initialized, default_setup,
                   setup, setup_name, _convergence_t, _convergence_f, frame, plots,
                   result>>
    /\ UNCHANGED tree_vars

\* Neither run_sim, _render, _analyze nor recompute_convergences has a try block:
\* an exception of the renderer call in flight leaves the operation at once.
renderer_raises(exc) ==
    /\ Pending
    /\ calls' = Complete("raised", exc)
    /\ result' = Raised(frame.op, exc, calls[Len(calls)].op)
    /\ pc' = "idle"
    /\ UNCHANGED <<design, renderer_name, renderer_initialized, default_setup, setup,
                   setup_name, _convergence_t, _convergence_f, frame, plots>>
    /\ UNCHANGED tree_vars

\* ------------------------------------------------- plot_convergences (196-236)
\* lines 213-216: an argument left None is replaced by the stored table.
plot_convergences_tables(ct, cf) ==
    <<IF ct = None THEN convergence_t ELSE ct,
      IF cf = None THEN convergence_f ELSE cf>>

\* lines 218-232: the pyEPR calls made, in order, each with the subplot it draws
\* on (the twin axis ax0t shares subplot 1) and the data it is given.
plot_convergences_plots(ct, cf, fig) ==
    IF fig = None
    THEN <<[fn |-> "plot_convergence_f_vspass", subplot |-> 0, data |-> <<cf>>],
           [fn |-> "plot_convergence_max_df", subplot |-> 1,
            data |-> <<iloc(ct, 1)>>],
           [fn |-> "plot_convergence_solved_elem", subplot |-> 1,
            data |-> <<iloc(ct, 0)>>],
           [fn |-> "plot_convergence_maxdf_vs_sol", subplot |-> 2,
            data |-> <<iloc(ct, 1), iloc(ct, 0)>>]>>
    ELSE <<>>

\* plot_convergences. Handed None as its table, pyEPR's plot function may raise
\* or return; None.iloc (line 227) always raises.
plot_convergences(ct, cf, fig) ==
    /\ pc = "idle"
    /\ LET tabs == plot_convergences_tables(ct, cf)
           all == plot_convergences_plots(tabs[1], tabs[2], fig)
       IN /\ frame' = [op |-> "plot_convergences",
                       convergence_t |-> tabs[1],
                       convergence_f |-> tabs[2],
                       fig |-> fig]
          /\ \/ /\ fig = None
                /\ tabs[2] = None
                /\ plots' = SubSeq(all, 1, 1)
                /\ result' = Raised("plot_convergences", "AttributeError",
                                    "plot_convergence_f_vspass")
             \/ /\ fig = None
                /\ tabs[1] = None
                /\ plots' = SubSeq(all, 1, 1)
                /\ result' = Raised("plot_convergences", "AttributeError", "iloc")
             \/ /\ fig = None => tabs[1] # None
                /\ plots' = all
                /\ result' = Returned("plot_convergences", None)
    /\ calls' = <<>>
    /\ UNCHANGED <<pc, design, renderer_name, renderer_initialized, default_setup,
                   setup, setup_name, _convergence_t, _convergence_f>>
    /\ UNCHANGED tree_vars

\* ------------------------------------------------- plot_fields (240-254)
\* line 251: renderer.set_mode(eigenmode, self.setup_name) is called.
plot_fields(object_name, eigenmode) ==
    /\ pc = "idle"
    /\ frame' = [op |-> "plot_fields", object_name |-> object_name,
                 eigenmode |-> eigenmode]
    /\ calls' = <<Call("set_mode", <<eigenmode, setup_name>>)>>
    /\ plots' = <<>>
    /\ result' = NoResult
    /\ pc' = "in_set_mode"
    /\ UNCHANGED <<design, renderer_name, renderer_initialized, default_setup, setup,
                   setup_name, _convergence_t, _convergence_f>>
    /\ UNCHANGED tree_vars

\* lines 252-254: renderer.plot_fields(object_name=object_name) is called.
plot_fields_plot ==
    /\ pc = "in_set_mode"
    /\ Pending
    /\ calls' = Append(Complete("returned", None),
                       Call("plot_fields", [object_name |-> frame.object_name]))
    /\ pc' = "in_plot_fields"
    /\ UNCHANGED <<design, renderer_name, renderer_initialized, default_setup, setup,
                   setup_name, _convergence_t, _convergence_f, frame, plots, result>>
    /\ UNCHANGED tree_vars

\* lines 252-254: its value is returned.
plot_fields_return ==
    /\ pc = "in_plot_fields"
    /\ Pending
    /\ calls' = Complete("returned", None)
    /\ result' = Returned("plot_fields", None)
    /\ pc' = "idle"
    /\ UNCHANGED <<design, renderer_name, renderer_initialized, default_setup, setup,
                   setup_name, _convergence_t, _convergence_f, frame, plots>>
    /\ UNCHANGED tree_vars

\* ------------------------------------------------- clear_fields (256-263)
\* renderer.clear_fields(names) is called.
clear_fields(names) ==
    /\ pc = "idle"
    /\ frame' = [op |-> "clear_fields", names |-> names]
    /\ calls' = <<Call("clear_fields", <<names>>)>>
    /\ plots' = <<>>
    /\ result' = NoResult
    /\ pc' = "in_clear_fields"
    /\ UNCHANGED <<design, renderer_name, renderer_initialized, default_setup, setup,
                   setup_name, _convergence_t, _convergence_f>>
    /\ UNCHANGED tree_vars

\* Its value is returned.
clear_fields_return ==
    /\ pc = "in_clear_fields"
    /\ Pending
    /\ calls' = Complete("returned", None)
    /\ result' = Returned("clear_fields", None)
    /\ pc' = "idle"
    /\ UNCHANGED <<design, renderer_name, renderer_initialized, default_setup, setup,
                   setup_name, _convergence_t, _convergence_f, frame, plots>>
    /\ UNCHANGED tree_vars

\* ------------------------------------------------- the program
\* Values a caller overrides setup.sim.name with.
SetupOverrides == {"Setup", "MySetup"}

Next ==
    \/ \E d \in DesignNames, rn \in RendererNames : __init__(d, rn)
    \/ \E n \in SetupOverrides : setup_update(n)
    \/ close
    \/ \E conv \in TablesF \cup {None} : convergence_f_setter(conv)
    \/ \E conv \in TablesT \cup {None} : convergence_t_setter(conv)
    \/ \E name \in RunNames : run_sim(name)
    \/ _initialize_renderer
    \/ _initialize_renderer_return
    \/ _render
    \/ \E dn \in execute_design_answers : _render_return(dn)
    \/ _analyze
    \/ \E name \in SetupNames : _analyze_setup_name(name)
    \/ _analyze_analyze_setup
    \/ _analyze_analyze_setup_return
    \/ _analyze_get_convergences
    \/ \E t \in TablesT, f \in TablesF : _analyze_convergences(t, f)
    \/ run_sim_return
    \/ \E variation \in Variations : recompute_convergences(variation)
    \/ \E t \in TablesT, f \in TablesF : recompute_convergences_return(t, f)
    \/ \E exc \in Exceptions : renderer_raises(exc)
    \/ \E ct \in TablesT \cup {None}, cf \in TablesF \cup {None},
          fig \in {None, "fig"} : plot_convergences(ct, cf, fig)
    \/ \E eigenmode \in {1, 2} : plot_fields("main", eigenmode)
    \/ plot_fields_plot
    \/ plot_fields_return
    \/ \E names \in {None, "all"} : clear_fields(names)
    \/ clear_fields_return

Spec == Init /\ [][Next]_vars

\* ================================================= QTreeView_Base (tree_view_base.py)
\* Default of the max_width argument of autoresize_columns (line 51).
DefaultMaxWidth == 200

\* Pixel widths the contents of a column can ask for.
Widths == {0, 100, 199, 200, 201, 300}

\* max_width arguments of autoresize_columns.
MaxWidthArgs == {DefaultMaxWidth, 100, 0}

\* Widths a column of a freshly set model starts with.
InitialWidths == {100, 300}

\* The models the view can be given: one content width per column.
Models == UNION {[1..n -> Widths] : n \in 0..MaxColumns}

\* QTreeView.resizeColumnToContents(i): column i (counted from 0) takes the
\* width of its contents; a column the model does not have is left alone.
resizeColumnToContents(widths, i) ==
    IF i + 1 \in DOMAIN widths
    THEN [widths EXCEPT ![i + 1] = content_width[i + 1]]
    ELSE widths

\* QTreeView.columnWidth(i)
columnWidth(widths, i) == widths[i + 1]

\* QTreeView.setColumnWidth(i, w)
setColumnWidth(widths, i, w) == [widths EXCEPT ![i + 1] = w]

\* The view is given a model (QTreeView.setModel), or its model's data change.
setModel(model, w) ==
    /\ tree_pc = "idle"
    /\ content_width' = model
    /\ column_width' = [k \in DOMAIN model |-> w]
    /\ tree_frame' = [op |-> "setModel"]
    /\ UNCHANGED tree_pc
    /\ UNCHANGED sim_vars

\* autoresize_columns is entered: line 61 counts the columns.
autoresize_columns(max_width) ==
    /\ tree_pc = "idle"
    /\ tree_frame' = [op |-> "autoresize_columns",
                      max_width |-> max_width,
                      columns |-> Len(content_width),
                      i |-> 0]
    /\ tree_pc' = "for"
    /\ UNCHANGED <<content_width, column_width>>
    /\ UNCHANGED sim_vars

\* Faulty variant: the comparison with max_width is inverted.
autoresize_column_inverted(widths, i, max_width) ==
    LET resized == resizeColumnToContents(widths, i)
        width == columnWidth(resized, i)
    IN IF width < max_width
       THEN setColumnWidth(resized, i, max_width)
       ELSE resized

\* Lines 63-66, the body of the loop for column i, on the widths given.
autoresize_column(widths, i, max_width) ==
    LET resized == resizeColumnToContents(widths, i)
        width == columnWidth(resized, i)
    IN IF width > max_width
       THEN setColumnWidth(resized, i, max_width)
       ELSE resized

\* Lines 62-66: one iteration of `for i in range(columns)`.
autoresize_columns_for ==
    /\ tree_pc = "for"
    /\ tree_frame.i < tree_frame.columns
    /\ column_width' =
          autoresize_column(column_width, tree_frame.i, tree_frame.max_width)
    /\ tree_frame' = [tree_frame EXCEPT !.i = @ + 1]
    /\ UNCHANGED <<tree_pc, content_width>>
    /\ UNCHANGED sim_vars

\* range(columns) is exhausted: autoresize_columns returns.
autoresize_columns_return ==
    /\ tree_pc = "for"
    /\ tree_frame.i >= tree_frame.columns
    /\ tree_pc' = "idle"
    /\ UNCHANGED <<content_width, column_width, tree_frame>>
    /\ UNCHANGED sim_vars

\* resize_on_expand (lines 68-70), the slot of the `expanded` signal.
resize_on_expand ==
    /\ tree_pc = "idle"
    /\ column_width' = resizeColumnToContents(column_width, 0)
    /\ tree_frame' = [op |-> "resize_on_expand"]
    /\ UNCHANGED <<tree_pc, content_width>>
    /\ UNCHANGED sim_vars

TreeNext ==
    \/ \E model \in Models, w \in InitialWidths : setModel(model, w)
    \/ \E max_width \in MaxWidthArgs : autoresize_columns(max_width)
    \/ autoresize_columns_for
    \/ autoresize_columns_return
    \/ resize_on_expand

SpecTree == Init /\ [][TreeNext]_vars

\* ================================================================= properties
\* The operations of the renderer calls logged so far, in order.
CallOps == [i \in 1..Len(calls) |-> calls[i].op]

\* The logged call of run_sim with operation op.
CallOf(op) == calls[CHOOSE i \in 1..Len(calls) : calls[i].op = op]

RunSimReturned == result.op = "run_sim" /\ result.kind = "returned"

\* C1: default_setup['sim'] holds the literal defaults min_freq_ghz = 1,
\* n_modes = 1, max_delta_f = 0.5, max_passes = 10, min_passes = 1,
\* min_converged = 1, pct_refinement = 30, basis_order = 1, and its vars are
\* Lj = '10 nH', Cj = '0 fF'.
C1_DefaultValues ==
    /\ default_setup.sim.min_freq_ghz = 1
    /\ default_setup.sim.n_modes = 1
    /\ default_setup.sim.max_delta_f = <<1, 2>>
    /\ default_setup.sim.max_passes = 10
    /\ default_setup.sim.min_passes = 1
    /\ default_setup.sim.min_converged = 1
    /\ default_setup.sim.pct_refinement = 30
    /\ default_setup.sim.basis_order = 1
    /\ default_setup.sim.vars.Lj = "10 nH"
    /\ default_setup.sim.vars.Cj = "0 fF"

\* The defaults are read on a constructed instance that has run a simulation.
C1_Witness ==
    /\ RunSimReturned
    /\ default_setup.sim.max_passes = 10
    /\ default_setup.sim.vars.Lj = "10 nH"

\* C2: default_setup has exactly 1 top-level entry, default_setup['sim'] has
\* exactly 9 entries and default_setup['sim']['vars'] has exactly 2 entries.
C2_EntryCounts ==
    /\ Cardinality(DOMAIN default_setup) = 1
    /\ Cardinality(DOMAIN default_setup.sim) = 9
    /\ Cardinality(DOMAIN default_setup.sim.vars) = 2

\* C3: constructing EigenmodeSim with any renderer name does not raise, and
\* right after construction setup_name, convergence_t and convergence_f are
\* all None.
C3_Construction ==
    result.op = "__init__" =>
        /\ result.kind = "returned"
        /\ pc = "idle"
        /\ setup_name = None
        /\ convergence_t = None
        /\ convergence_f = None

\* An instance was constructed with the renderer name the unit test passes.
C3_Witness ==
    /\ result.op = "__init__"
    /\ renderer_name = "eigenName"
    /\ setup_name = None

\* The renderer calls of a complete run_sim, given renderer_initialized on entry.
RunSimSequence(entry_initialized) ==
    (IF entry_initialized THEN <<>> ELSE <<"initialize_renderer">>)
        \o <<"execute_design", "initialize_eigenmode", "analyze_setup",
             "get_convergences">>

\* C4: a successful run_sim has issued, each exactly once and in this order,
\* the renderer initialization (if and only if renderer_initialized was false
\* on entry), execute_design, initialize_eigenmode, analyze_setup and
\* get_convergences; while run_sim runs, the calls issued so far are a prefix
\* of that sequence and every call but the last has returned.
C4_CallOrder ==
    frame.op = "run_sim" =>
        LET expected == RunSimSequence(frame.entry_initialized)
        IN /\ Len(calls) <= Len(expected)
           /\ CallOps = SubSeq(expected, 1, Len(calls))
           /\ \A i \in 1..(Len(calls) - 1) : calls[i].status = "returned"
           /\ RunSimReturned =>
                /\ CallOps = expected
                /\ \A i \in 1..Len(calls) : calls[i].status = "returned"

\* A run_sim that had to start the renderer has returned.
C4_Witness ==
    /\ RunSimReturned
    /\ ~frame.entry_initialized
    /\ Len(calls) = 5

\* C5: run_sim returns (the value execute_design returned in this call, the
\* value initialize_eigenmode returned in this call); on return self.setup_name
\* is the second element, and analyze_setup was called with that setup name.
C5_ReturnValue ==
    RunSimReturned =>
        /\ result.value = <<CallOf("execute_design").ret,
                            CallOf("initialize_eigenmode").ret>>
        /\ setup_name = result.value[2]
        /\ CallOf("analyze_setup").args = <<result.value[2]>>

\* run_sim returned a design name the renderer chose, not the requested one.
C5_Witness ==
    /\ RunSimReturned
    /\ result.value[1] = RenamedDesign
    /\ CallOf("execute_design").args.design_name # RenamedDesign
    /\ result.value[2] \in SetupNames

\* C6: the design name run_sim passes to execute_design is
\* base + '_' + renderer_name, where base is the name argument when it is not
\* None and design.name when it is None; solution_type is always 'eigenmode'.
C6_DesignName ==
    \A i \in 1..Len(calls) :
        calls[i].op = "execute_design" =>
            LET name == frame.design_selection.name
                base == IF name # None THEN name ELSE design.name
            IN /\ calls[i].args.design_name = base \o "_" \o renderer_name
               /\ calls[i].args.solution_type = "eigenmode"

\* execute_design was called for a run_sim that named its selection.
C6_Witness ==
    /\ frame.op = "run_sim"
    /\ frame.design_selection.name = "sel"
    /\ Len(calls) > 0
    /\ calls[Len(calls)].op = "execute_design"
    /\ calls[Len(calls)].args.design_name = "sel_eigenName"

\* This step is the return of a renderer.get_convergences call.
GetConvergencesReturns ==
    /\ Pending
    /\ calls[Len(calls)].op = "get_convergences"
    /\ Len(calls') = Len(calls)
    /\ calls'[Len(calls')].status = "returned"

\* Operations that set the tables other than from a get_convergences result.
TableWriters == {"__init__", "convergence_t.setter", "convergence_f.setter"}

\* C7: without direct use of the property setters, convergence_t and
\* convergence_f are the first and second element of the result of the most
\* recent renderer.get_convergences call: both None after construction, both
\* replaced from the same result whenever a get_convergences call returns, and
\* kept by every other step; so after a successful run_sim or
\* recompute_convergences they are the pair its get_convergences call returned.
C7_Convergences ==
    /\ [](((result.op \in {"run_sim", "recompute_convergences"}
            /\ result.kind = "returned") =>
              /\ calls[Len(calls)].op = "get_convergences"
              /\ convergence_t = calls[Len(calls)].ret[1]
              /\ convergence_f = calls[Len(calls)].ret[2]))
    /\ [][/\ GetConvergencesReturns =>
              /\ convergence_t' = calls'[Len(calls')].ret[1]
              /\ convergence_f' = calls'[Len(calls')].ret[2]
          /\ result'.op = "__init__" =>
              /\ convergence_t' = None
              /\ convergence_f' = None
          /\ (~GetConvergencesReturns /\ result'.op \notin TableWriters) =>
              /\ convergence_t' = convergence_t
              /\ convergence_f' = convergence_f]_vars

\* recompute_convergences replaced the tables a run_sim had stored before.
C7_Witness ==
    /\ result.op = "recompute_convergences"
    /\ result.kind = "returned"
    /\ setup_name # None
    /\ convergence_t = "t2"
    /\ convergence_f = "f1"
    /\ calls[1].ret = <<"t2", "f1">>

\* The renderer calls run_sim makes after the renderer is running.
RunSimRendererCalls ==
    {"execute_design", "initialize_eigenmode", "analyze_setup", "get_convergences"}

\* C8: if execute_design, initialize_eigenmode, analyze_setup or
\* get_convergences raises inside run_sim, the error leaves run_sim unchanged:
\* the failing call is the last renderer call issued (no retry, no later call of
\* the sequence), and run_sim ends with that exception and without a value.
C8_ErrorPropagates ==
    frame.op = "run_sim" =>
        \A i \in 1..Len(calls) :
            (calls[i].op \in RunSimRendererCalls /\ calls[i].status = "raised") =>
                /\ i = Len(calls)
                /\ \A j \in 1..Len(calls) : j # i => calls[j].op # calls[i].op
                /\ pc = "idle"
                /\ result.op = "run_sim"
                /\ result.kind = "raised"
                /\ result.exc = calls[i].ret
                /\ result.by = calls[i].op
                /\ "value" \notin DOMAIN result

\* analyze_setup raised inside run_sim, after two calls that returned.
C8_Witness ==
    /\ frame.op = "run_sim"
    /\ result.kind = "raised"
    /\ result.by = "analyze_setup"
    /\ result.exc = "COMError"
    /\ frame.entry_initialized
    /\ Len(calls) = 3

\* C9: no operation of EigenmodeSim (construction, run_sim, the setters,
\* recompute_convergences, plot_convergences, plot_fields, clear_fields) adds,
\* removes or changes an entry of the class attribute default_setup.
C9_DefaultSetupStatic == [][default_setup' = default_setup]_vars

\* A run returned on an instance whose own setup was overridden.
C9_Witness ==
    /\ RunSimReturned
    /\ setup.sim.name = "MySetup"
    /\ default_setup.sim.name = "Setup"

\* A pyEPR plot function was called by the last plot_convergences.
HasPlot(fn) == \E i \in 1..Len(plots) : plots[i].fn = fn

\* C10: plot_convergences creates the convergence-frequency vs. pass-number
\* plot if fig is None and, whether or not a fig is passed, the delta-frequency
\* and solved-elements vs. pass-number plot and the delta-frequency vs.
\* solved-elements plot; a table argument left None is replaced by the stored
\* table; the stored tables are not modified.
C10_PlotsCreated ==
    (result.op = "plot_convergences" /\ result.kind = "returned") =>
        /\ frame.fig = None => HasPlot("plot_convergence_f_vspass")
        /\ HasPlot("plot_convergence_max_df")
        /\ HasPlot("plot_convergence_solved_elem")
        /\ HasPlot("plot_convergence_maxdf_vs_sol")

\* The smaller of two widths.
Min(a, b) == IF a <= b THEN a ELSE b

AutoresizeReturned == tree_frame.op = "autoresize_columns" /\ tree_pc = "idle"

\* C11: after autoresize_columns(max_width) returns, every column i of the
\* model has width min(content width of column i, max_width): no column is
\* wider than max_width, and a column whose content width is at most max_width
\* is left at its content width.
C11_ColumnWidths ==
    AutoresizeReturned =>
        /\ DOMAIN column_width = DOMAIN content_width
        /\ \A k \in DOMAIN content_width :
              /\ column_width[k] = Min(content_width[k], tree_frame.max_width)
              /\ column_width[k] <= tree_frame.max_width
              /\ content_width[k] <= tree_frame.max_width =>
                    column_width[k] = content_width[k]

\* With the default max_width, one column was cut to 200 and one kept its
\* content width.
C11_Witness ==
    /\ AutoresizeReturned
    /\ tree_frame.max_width = DefaultMaxWidth
    /\ content_width = <<300, 199>>
    /\ column_width = <<200, 199>>

\* The attributes of the instance other than the two convergence tables.
OtherAttributes ==
    <<design, renderer_name, renderer_initialized, default_setup, setup, setup_name>>

\* C12: recompute_convergences(variation) makes exactly one renderer call,
\* get_convergences(variation), and no execute_design, initialize_eigenmode or
\* analyze_setup call; it leaves setup_name and every attribute other than
\* convergence_t and convergence_f unchanged, and changes these two only when
\* its get_convergences call returns, in whatever state it is invoked.
C12_RecomputeFrame ==
    /\ [](frame.op = "recompute_convergences" =>
            /\ Len(calls) = 1
            /\ calls[1].op = "get_convergences"
            /\ calls[1].args = <<frame.variation>>
            /\ pc = "idle" => calls[1].status \in {"returned", "raised"})
    /\ [][frame'.op = "recompute_convergences" =>
            /\ OtherAttributes' = OtherAttributes
            /\ ~GetConvergencesReturns =>
                  /\ convergence_t' = convergence_t
                  /\ convergence_f' = convergence_f]_vars

\* recompute_convergences returned on an instance that never ran run_sim and
\* whose renderer was not started.
C12_Witness ==
    /\ result.op = "recompute_convergences"
    /\ result.kind = "returned"
    /\ frame.variation = "scale_factor='1.2001'"
    /\ setup_name = None
    /\ ~renderer_initialized
    /\ convergence_t \in TablesT
    /\ convergence_f \in TablesF

\* The last operation was a run_sim that failed in one of the renderer calls ops.
RunSimRaisedBy(ops) ==
    /\ frame.op = "run_sim"
    /\ result.op = "run_sim"
    /\ result.kind = "raised"
    /\ result.by \in ops

\* C13: after a run_sim in which execute_design or initialize_eigenmode
\* raised, setup_name, convergence_t and convergence_f have the values they had
\* before the call; after one in which analyze_setup or get_convergences
\* raised, convergence_t and convergence_f have their previous values and
\* setup_name is the name initialize_eigenmode returned in this call.
C13_FailedRunState ==
    /\ RunSimRaisedBy({"execute_design", "initialize_eigenmode"}) =>
          /\ setup_name = frame.before.setup_name
          /\ convergence_t = frame.before.convergence_t
          /\ convergence_f = frame.before.convergence_f
    /\ RunSimRaisedBy({"analyze_setup", "get_convergences"}) =>
          /\ convergence_t = frame.before.convergence_t
          /\ convergence_f = frame.before.convergence_f
          /\ setup_name = CallOf("initialize_eigenmode").ret

\* get_convergences raised in a second run: the stored tables are those of the
\* earlier setup, while setup_name already names the new one.
C13_Witness ==
    /\ RunSimRaisedBy({"get_convergences"})
    /\ frame.before.setup_name = "Setup1"
    /\ setup_name = "Setup2"
    /\ convergence_t = "t1"
    /\ convergence_f = "f1"

====
